---- MODULE Spec2Model ----
(***************************************************************************)
(* Model of src/process_articles.py: the token-bounded sentence chunker    *)
(* (chunk_sentences), its word-level fallback (split_long_sentence), the   *)
(* text preprocessing (clean_whitespace, simple_sentencize) and the batch  *)
(* loop of main.                                                           *)
(*                                                                         *)
(* A Python str is a sequence of one-character strings.  The tokenizer of  *)
(* the embedding model is an external collaborator; it is modelled as one  *)
(* token per non-whitespace character, so that the token count of a joined *)
(* string is the sum of the token counts of its pieces.                    *)
(***************************************************************************)
EXTENDS Integers, Sequences, FiniteSets, TLC

\* ------------------------------------------------------------------ bounds
MaxSentenceLen == 4
MaxSentences == 3
MaxTokens == 4
MaxStrLen == 6
MaxRows == 2
MaxRaiseAt == 2

VARIABLES
  pc,             \* position of the running function
  max_tokens,     \* token budget
  \* chunk_sentences
  sentences, output, current_chunk, chunk_len, si,
  \* split_long_sentence
  sentence, words, parts, current_part, current_len, wi,
  \* main: the command line, the input file and the embedding model
  input_exists,        \* input_csv.exists()
  table,               \* the rows of the tab-separated input file
  encode_raises,       \* per row: the chunk at which model.encode raises, 0 for none
  prefix, prefix_description,
  \* main: locals and the file system
  output_path, output_path_exists, df, row, chunks, embeddings, ci,
  processed_articles, saved_dataset

chunkVars == <<sentences, output, current_chunk, chunk_len, si>>
splitVars == <<sentence, words, parts, current_part, current_len, wi>>
envVars == <<input_exists, table, encode_raises, prefix, prefix_description>>
mainVars == <<output_path, output_path_exists, df, row, chunks, embeddings, ci,
              processed_articles, saved_dataset>>
vars == <<pc, max_tokens, chunkVars, splitVars, envVars, mainVars>>

\* ----------------------------------------------------------------- strings
SeqsUpTo(S, n) == UNION {[1..m -> S] : m \in 0..n}

IsSpace(c) == c \in {" ", "\n"}

\* str.split(): the maximal runs of non-whitespace characters
RECURSIVE SplitAcc(_, _, _)
SplitAcc(s, word, acc) ==
  IF s = <<>>
  THEN IF word = <<>> THEN acc ELSE Append(acc, word)
  ELSE IF IsSpace(Head(s))
       THEN SplitAcc(Tail(s), <<>>, IF word = <<>> THEN acc ELSE Append(acc, word))
       ELSE SplitAcc(Tail(s), Append(word, Head(s)), acc)

Split(s) == SplitAcc(s, <<>>, <<>>)

\* " ".join(list)
RECURSIVE Join(_)
Join(list) ==
  IF list = <<>> THEN <<>>
  ELSE IF Len(list) = 1 THEN list[1]
  ELSE list[1] \o <<" ">> \o Join(Tail(list))

\* len(model.tokenize(text)["input_ids"])
tokenize(text) == Cardinality({k \in 1..Len(text) : ~IsSpace(text[k])})

\* ---------------------------------------------------------- preprocessing
IsPunct(c) == c \in {".", ",", "!", "?", ";", ":"}
IsTerminal(c) == c \in {".", "!", "?"}

RECURSIVE DropSpaces(_)
DropSpaces(s) ==
  IF s # <<>> /\ IsSpace(Head(s)) THEN DropSpaces(Tail(s)) ELSE s

\* text.replace('\n', ' ')
ReplaceNewlines(s) == [k \in 1..Len(s) |-> IF s[k] = "\n" THEN " " ELSE s[k]]

\* re.sub(r'\s+', ' ', text)
RECURSIVE CollapseSpaces(_)
CollapseSpaces(s) ==
  IF s = <<>> THEN <<>>
  ELSE IF IsSpace(Head(s)) THEN <<" ">> \o CollapseSpaces(DropSpaces(s))
  ELSE <<Head(s)>> \o CollapseSpaces(Tail(s))

\* re.sub(r'\s+([.,!?;:])', r'\1', text)
RECURSIVE DropSpacesBeforePunct(_)
DropSpacesBeforePunct(s) ==
  IF s = <<>> THEN <<>>
  ELSE IF IsSpace(Head(s))
       THEN LET rest == DropSpaces(s)
            IN IF rest # <<>> /\ IsPunct(Head(rest))
               THEN <<Head(rest)>> \o DropSpacesBeforePunct(Tail(rest))
               ELSE SubSeq(s, 1, Len(s) - Len(rest)) \o DropSpacesBeforePunct(rest)
       ELSE <<Head(s)>> \o DropSpacesBeforePunct(Tail(s))

\* re.sub(r'([.,!?;:])\s+', r'\1 ', text)
RECURSIVE OneSpaceAfterPunct(_)
OneSpaceAfterPunct(s) ==
  IF s = <<>> THEN <<>>
  ELSE IF IsPunct(Head(s)) /\ Len(s) > 1 /\ IsSpace(s[2])
       THEN <<Head(s), " ">> \o OneSpaceAfterPunct(DropSpaces(Tail(s)))
       ELSE <<Head(s)>> \o OneSpaceAfterPunct(Tail(s))

RECURSIVE DropTrailingSpaces(_)
DropTrailingSpaces(s) ==
  IF s # <<>> /\ IsSpace(s[Len(s)])
  THEN DropTrailingSpaces(SubSeq(s, 1, Len(s) - 1)) ELSE s

\* str.strip()
Strip(s) == DropTrailingSpaces(DropSpaces(s))

clean_whitespace(text) ==
  Strip(OneSpaceAfterPunct(DropSpacesBeforePunct(CollapseSpaces(ReplaceNewlines(text)))))

\* re.findall(r'[^.!?]*[.!?]', text): each match runs up to and including
\* the next terminal mark; text after the last terminal mark matches nothing
RECURSIVE FindSentences(_, _, _)
FindSentences(s, cur, acc) ==
  IF s = <<>> THEN acc
  ELSE IF IsTerminal(Head(s))
       THEN FindSentences(Tail(s), <<>>, Append(acc, Append(cur, Head(s))))
       ELSE FindSentences(Tail(s), Append(cur, Head(s)), acc)

simple_sentencize(text) ==
  LET matches == FindSentences(text, <<>>, <<>>)
      stripped == [k \in 1..Len(matches) |-> Strip(matches[k])]
  IN SelectSeq(stripped, LAMBDA m : m # <<>>)

\* ------------------------------------------------------ split_long_sentence
\* one iteration of the loop over words; st = [parts, current_part, current_len]
SplitStepLate(st, word, maxTok) ==
  LET seq_len == tokenize(word)
      st1 == IF st.current_len > maxTok
             THEN [parts |-> Append(st.parts, Join(st.current_part)),
                   current_part |-> <<>>, current_len |-> 0]
             ELSE st
  IN [st1 EXCEPT !.current_part = Append(@, word), !.current_len = @ + seq_len]

SplitStep(st, word, maxTok) ==
  LET seq_len == tokenize(word)
      st1 == IF st.current_len + seq_len > maxTok
             THEN [parts |-> Append(st.parts, Join(st.current_part)),
                   current_part |-> <<>>, current_len |-> 0]
             ELSE st
  IN [st1 EXCEPT !.current_part = Append(@, word), !.current_len = @ + seq_len]

\* the trailing flush
SplitFlush(st) ==
  IF st.current_part # <<>> THEN Append(st.parts, Join(st.current_part)) ELSE st.parts

RECURSIVE SplitFold(_, _, _)
SplitFold(st, ws, maxTok) ==
  IF ws = <<>> THEN st ELSE SplitFold(SplitStep(st, Head(ws), maxTok), Tail(ws), maxTok)

split_long_sentence(s, maxTok) ==
  SplitFlush(SplitFold([parts |-> <<>>, current_part |-> <<>>, current_len |-> 0],
                       Split(s), maxTok))

\* ---------------------------------------------------------- chunk_sentences
\* one iteration of the loop over sentences; st = [output, current_chunk, chunk_len]
ChunkStepNoCount(st, s, maxTok) ==
  LET seq_len == tokenize(s)
      st1 == IF st.chunk_len > maxTok
             THEN IF Len(st.current_chunk) = 0
                  THEN [st EXCEPT !.output = @ \o split_long_sentence(s, maxTok)]
                  ELSE [output |-> Append(st.output, Join(st.current_chunk)),
                        current_chunk |-> <<>>, chunk_len |-> 0]
             ELSE st
  IN [st1 EXCEPT !.current_chunk = Append(@, s), !.chunk_len = @ + seq_len]

ChunkStepNoDup(st, s, maxTok) ==
  LET seq_len == tokenize(s)
  IN IF st.chunk_len + seq_len > maxTok /\ Len(st.current_chunk) = 0
     THEN [st EXCEPT !.output = @ \o split_long_sentence(s, maxTok)]
     ELSE LET st1 == IF st.chunk_len + seq_len > maxTok
                     THEN [output |-> Append(st.output, Join(st.current_chunk)),
                           current_chunk |-> <<>>, chunk_len |-> 0]
                     ELSE st
          IN [st1 EXCEPT !.current_chunk = Append(@, s), !.chunk_len = @ + seq_len]

ChunkStepEager(st, s, maxTok) ==
  LET seq_len == tokenize(s)
      st1 == IF st.chunk_len + seq_len >= maxTok
             THEN IF Len(st.current_chunk) = 0
                  THEN [st EXCEPT !.output = @ \o split_long_sentence(s, maxTok)]
                  ELSE [output |-> Append(st.output, Join(st.current_chunk)),
                        current_chunk |-> <<>>, chunk_len |-> 0]
             ELSE st
  IN [st1 EXCEPT !.current_chunk = Append(@, s), !.chunk_len = @ + seq_len]

ChunkStep(st, s, maxTok) ==
  LET seq_len == tokenize(s)
      st1 == IF st.chunk_len + seq_len > maxTok
             THEN IF Len(st.current_chunk) = 0
                  THEN [st EXCEPT !.output = @ \o split_long_sentence(s, maxTok)]
                  ELSE [output |-> Append(st.output, Join(st.current_chunk)),
                        current_chunk |-> <<>>, chunk_len |-> 0]
             ELSE st
  IN [st1 EXCEPT !.current_chunk = Append(@, s), !.chunk_len = @ + seq_len]

\* the trailing flush
ChunkFlush(st) ==
  IF st.current_chunk # <<>> THEN Append(st.output, Join(st.current_chunk)) ELSE st.output

RECURSIVE ChunkFold(_, _, _)
ChunkFold(st, ss, maxTok) ==
  IF ss = <<>> THEN st ELSE ChunkFold(ChunkStep(st, Head(ss), maxTok), Tail(ss), maxTok)

chunk_sentences(ss, maxTok) ==
  ChunkFlush(ChunkFold([output |-> <<>>, current_chunk |-> <<>>, chunk_len |-> 0],
                       ss, maxTok))

\* -------------------------------------------------------------------- main
MaxLengthCap == 9000
DefaultMaxTokens == 510

find_max_tokens(max_length, ok) ==
  LET capped == IF max_length > MaxLengthCap THEN DefaultMaxTokens ELSE max_length
  IN IF ok THEN capped ELSE DefaultMaxTokens

\* hashlib.sha256(prompt.encode()).hexdigest()[:8]; the digest is kept
\* symbolic: a tag in front of the hashed text
hash_prompt(prompt) == <<"#">> \o prompt

\* model_name.replace("/", "__")
RECURSIVE ReplaceSlash(_)
ReplaceSlash(name) ==
  IF name = <<>> THEN <<>>
  ELSE (IF Head(name) = "/" THEN <<"_", "_">> ELSE <<Head(name)>>)
       \o ReplaceSlash(Tail(name))

model_name == <<"o", "/", "m">>

\* the directory name below output_dir
BuildOutputPath(pfx, description) ==
  LET mname == ReplaceSlash(model_name)
  IN IF pfx # <<>>
     THEN IF description # <<>>
          THEN <<"e", "m", "b", "_", "_">> \o mname \o <<"_">> \o description
          ELSE <<"e", "m", "b", "_", "_">> \o mname \o <<"_">> \o hash_prompt(pfx)
     ELSE <<"e", "m", "b", "_", "_">> \o mname

\* the value pandas gives an empty text cell; it is a float, not a str
NaN == <<"NaN">>

\* the try block of the preprocessing stage
preprocess(text, maxTok) ==
  chunk_sentences(simple_sentencize(clean_whitespace(text)), maxTok)

\* f"{prefix} {chunk}" if prefix else chunk
chunk_input(pfx, chunk) ==
  IF pfx # <<>> THEN pfx \o <<" ">> \o chunk ELSE chunk

\* model.encode(text): the vector is kept symbolic, one component per
\* character of the encoded text
Alphabet == <<"a", ".", "!", " ", "\n", "Q", ":">>
Code(c) == CHOOSE k \in 1..Len(Alphabet) : Alphabet[k] = c
encode(text) == [k \in 1..Len(text) |-> Code(text[k])]

\* list(map(float, emb))
FloatList(emb) == [k \in 1..Len(emb) |-> emb[k]]

\* the dict appended to processed_articles
ProcessedArticle(article_id, cs, embs) ==
  [article_id |-> ToString(article_id),
   chunk |-> cs,
   embedding |-> [k \in 1..Len(embs) |-> FloatList(embs[k])]]

\* ------------------------------------------------------------------ inputs
\* a sentence is what simple_sentencize returns for cleaned text: words
\* separated by single spaces, no surrounding whitespace, closed by "."
SentenceSet ==
  {t \o <<".">> : t \in {u \in SeqsUpTo({"a", " "}, MaxSentenceLen) :
                             u # <<>> /\ u = Join(Split(u))}}
StrSet == SeqsUpTo({"a", " "}, MaxStrLen)

\* the text cells of the input table
TextSamples ==
  { NaN,
    <<"a", ".", " ", "a", ".">>,
    <<" ", "a", " ", " ", ".", "\n", "a", "!", " ", "a", "a">>,
    <<"a", "a", " ", "a", "a", ".", " ", "a", ".">> }
ModelMaxLengths == {3, 10000}
PrefixOptions == {<<<<>>, <<>>>>, <<<<"Q", ":">>, <<>>>>, <<<<"Q", ":">>, <<"a">>>>}

\* ------------------------------------------- chunk_sentences, step by step
MainIdle == /\ input_exists = FALSE /\ table = <<>> /\ encode_raises = <<>>
            /\ prefix = <<>> /\ prefix_description = <<>>
            /\ output_path = <<>> /\ output_path_exists = FALSE /\ df = <<>>
            /\ row = 0 /\ chunks = <<>> /\ embeddings = <<>> /\ ci = 0
            /\ processed_articles = <<>> /\ saved_dataset = <<>>
ChunkIdle == /\ sentences = <<>> /\ output = <<>> /\ current_chunk = <<>>
             /\ chunk_len = 0 /\ si = 0
SplitIdle == /\ sentence = <<>> /\ words = <<>> /\ parts = <<>>
             /\ current_part = <<>> /\ current_len = 0 /\ wi = 0

InitChunk ==
  /\ pc = "chunk_loop"
  /\ max_tokens \in 1..MaxTokens
  /\ sentences \in SeqsUpTo(SentenceSet, MaxSentences)
  /\ output = <<>> /\ current_chunk = <<>> /\ chunk_len = 0
  /\ si = 1
  /\ SplitIdle /\ MainIdle

ChunkLoop ==
  /\ pc = "chunk_loop"
  /\ si <= Len(sentences)
  /\ LET st == ChunkStep([output |-> output, current_chunk |-> current_chunk,
                          chunk_len |-> chunk_len], sentences[si], max_tokens)
     IN /\ output' = st.output
        /\ current_chunk' = st.current_chunk
        /\ chunk_len' = st.chunk_len
  /\ si' = si + 1
  /\ UNCHANGED <<pc, max_tokens, sentences, splitVars, envVars, mainVars>>

ChunkReturn ==
  /\ pc = "chunk_loop"
  /\ si > Len(sentences)
  /\ output' = ChunkFlush([output |-> output, current_chunk |-> current_chunk,
                           chunk_len |-> chunk_len])
  /\ pc' = "chunk_done"
  /\ UNCHANGED <<max_tokens, sentences, current_chunk, chunk_len, si, splitVars,
               envVars, mainVars>>

NextChunk == ChunkLoop \/ ChunkReturn

SpecChunk == InitChunk /\ [][NextChunk]_vars

\* --------------------------------------- split_long_sentence, step by step
InitSplit ==
  /\ pc = "split_start"
  /\ max_tokens \in 1..MaxTokens
  /\ sentence \in StrSet
  /\ words = <<>> /\ parts = <<>> /\ current_part = <<>> /\ current_len = 0 /\ wi = 0
  /\ ChunkIdle /\ MainIdle

SplitStart ==
  /\ pc = "split_start"
  /\ words' = Split(sentence)
  /\ parts' = <<>> /\ current_part' = <<>> /\ current_len' = 0
  /\ wi' = 1
  /\ pc' = "split_loop"
  /\ UNCHANGED <<max_tokens, sentence, chunkVars, envVars, mainVars>>

SplitLoop ==
  /\ pc = "split_loop"
  /\ wi <= Len(words)
  /\ LET st == SplitStep([parts |-> parts, current_part |-> current_part,
                          current_len |-> current_len], words[wi], max_tokens)
     IN /\ parts' = st.parts
        /\ current_part' = st.current_part
        /\ current_len' = st.current_len
  /\ wi' = wi + 1
  /\ UNCHANGED <<pc, max_tokens, sentence, words, chunkVars, envVars, mainVars>>

SplitReturn ==
  /\ pc = "split_loop"
  /\ wi > Len(words)
  /\ parts' = SplitFlush([parts |-> parts, current_part |-> current_part,
                          current_len |-> current_len])
  /\ pc' = "split_done"
  /\ UNCHANGED <<max_tokens, sentence, words, current_part, current_len, wi, chunkVars,
               envVars, mainVars>>

NextSplit == SplitStart \/ SplitLoop \/ SplitReturn

SpecSplit == InitSplit /\ [][NextSplit]_vars

\* ------------------------------------------------------------------- main
Init ==
  /\ pc = "load_model"
  /\ input_exists \in BOOLEAN
  /\ \E n \in 0..MaxRows :
       /\ table \in [1..n -> TextSamples]
       /\ encode_raises \in [1..n -> 0..MaxRaiseAt]
  /\ \E o \in PrefixOptions : prefix = o[1] /\ prefix_description = o[2]
  /\ max_tokens = 0
  /\ output_path = <<>> /\ output_path_exists = FALSE /\ df = <<>>
  /\ row = 0 /\ chunks = <<>> /\ embeddings = <<>> /\ ci = 0
  /\ processed_articles = <<>> /\ saved_dataset = <<>>
  /\ ChunkIdle /\ SplitIdle

\* lines 135-140; the loaded tokenizer reports its model_max_length and
\* answers the trial call (ok) or raises
LoadModel ==
  /\ pc = "load_model"
  /\ \E max_length \in ModelMaxLengths, ok \in BOOLEAN :
       max_tokens' = find_max_tokens(max_length, ok)
  /\ pc' = "make_output_path"
  /\ UNCHANGED <<chunkVars, splitVars, envVars, mainVars>>

\* lines 142-155
MakeOutputPath ==
  /\ pc = "make_output_path"
  /\ output_path' = BuildOutputPath(prefix, prefix_description)
  /\ output_path_exists' = TRUE
  /\ pc' = "check_input"
  /\ UNCHANGED <<max_tokens, chunkVars, splitVars, envVars, df, row, chunks,
                 embeddings, ci, processed_articles, saved_dataset>>

\* lines 158-160
InputMissing ==
  /\ pc = "check_input"
  /\ ~input_exists
  /\ pc' = "FileNotFoundError"
  /\ UNCHANGED <<max_tokens, chunkVars, splitVars, envVars, mainVars>>

ReadCsvUnchecked ==
  /\ pc = "check_input"
  /\ df' = [r \in 1..Len(table) |-> [article_id |-> r, text |-> table[r]]]
  /\ processed_articles' = <<>>
  /\ row' = 1
  /\ pc' = "row"
  /\ UNCHANGED <<max_tokens, chunkVars, splitVars, envVars, output_path,
                 output_path_exists, chunks, embeddings, ci, saved_dataset>>

\* lines 158, 163-165
ReadCsv ==
  /\ pc = "check_input"
  /\ input_exists
  /\ df' = [r \in 1..Len(table) |-> [article_id |-> r, text |-> table[r]]]
  /\ processed_articles' = <<>>
  /\ row' = 1
  /\ pc' = "row"
  /\ UNCHANGED <<max_tokens, chunkVars, splitVars, envVars, output_path,
                 output_path_exists, chunks, embeddings, ci, saved_dataset>>

\* lines 167-175, 182: the preprocessing stage succeeds
Preprocess ==
  /\ pc = "row"
  /\ row <= Len(df)
  /\ df[row].text # NaN
  /\ chunks' = preprocess(df[row].text, max_tokens)
  /\ embeddings' = <<>>
  /\ ci' = 1
  /\ pc' = "embed"
  /\ UNCHANGED <<max_tokens, chunkVars, splitVars, envVars, output_path,
                 output_path_exists, df, row, processed_articles, saved_dataset>>

\* lines 167-178: text.replace raises on a cell that is not a str
PreprocessError ==
  /\ pc = "row"
  /\ row <= Len(df)
  /\ df[row].text = NaN
  /\ row' = row + 1
  /\ UNCHANGED <<pc, max_tokens, chunkVars, splitVars, envVars, output_path,
                 output_path_exists, df, chunks, embeddings, ci,
                 processed_articles, saved_dataset>>

EmbedChunkPrepend ==
  /\ pc = "embed"
  /\ ci <= Len(chunks)
  /\ encode_raises[row] # ci
  /\ embeddings' = <<encode(chunk_input(prefix, chunks[ci]))>> \o embeddings
  /\ ci' = ci + 1
  /\ UNCHANGED <<pc, max_tokens, chunkVars, splitVars, envVars, output_path,
                 output_path_exists, df, row, chunks, processed_articles,
                 saved_dataset>>

\* lines 183-186
EmbedChunk ==
  /\ pc = "embed"
  /\ ci <= Len(chunks)
  /\ encode_raises[row] # ci
  /\ embeddings' = Append(embeddings, encode(chunk_input(prefix, chunks[ci])))
  /\ ci' = ci + 1
  /\ UNCHANGED <<pc, max_tokens, chunkVars, splitVars, envVars, output_path,
                 output_path_exists, df, row, chunks, processed_articles,
                 saved_dataset>>

EmbedErrorKeepsPartial ==
  /\ pc = "embed"
  /\ ci <= Len(chunks)
  /\ encode_raises[row] = ci
  /\ processed_articles' =
       Append(processed_articles,
              ProcessedArticle(df[row].article_id, SubSeq(chunks, 1, ci - 1), embeddings))
  /\ row' = row + 1
  /\ pc' = "row"
  /\ UNCHANGED <<max_tokens, chunkVars, splitVars, envVars, output_path,
                 output_path_exists, df, chunks, embeddings, ci, saved_dataset>>

\* lines 185, 187-189: model.encode raises
EmbedError ==
  /\ pc = "embed"
  /\ ci <= Len(chunks)
  /\ encode_raises[row] = ci
  /\ row' = row + 1
  /\ pc' = "row"
  /\ UNCHANGED <<max_tokens, chunkVars, splitVars, envVars, output_path,
                 output_path_exists, df, chunks, embeddings, ci,
                 processed_articles, saved_dataset>>

\* lines 197-201
AppendArticle ==
  /\ pc = "embed"
  /\ ci > Len(chunks)
  /\ processed_articles' =
       Append(processed_articles, ProcessedArticle(df[row].article_id, chunks, embeddings))
  /\ row' = row + 1
  /\ pc' = "row"
  /\ UNCHANGED <<max_tokens, chunkVars, splitVars, envVars, output_path,
                 output_path_exists, df, chunks, embeddings, ci, saved_dataset>>

\* lines 216-219
SaveDataset ==
  /\ pc = "row"
  /\ row > Len(df)
  /\ saved_dataset' = <<processed_articles>>
  /\ pc' = "done"
  /\ UNCHANGED <<max_tokens, chunkVars, splitVars, envVars, output_path,
                 output_path_exists, df, row, chunks, embeddings, ci,
                 processed_articles>>

Next ==
  \/ LoadModel \/ MakeOutputPath \/ InputMissing \/ ReadCsv
  \/ Preprocess \/ PreprocessError
  \/ EmbedChunk \/ EmbedError \/ AppendArticle
  \/ SaveDataset

Spec == Init /\ [][Next]_vars

\* ------------------------------------------------------------------ claims
AllWithin(list) == \A k \in 1..Len(list) : tokenize(list[k]) <= max_tokens

\* C1: when no sentence's token count exceeds max_tokens, every chunk
\* returned by chunk_sentences has a token count <= max_tokens.
C1_ChunkBudget ==
  AllWithin(sentences) => AllWithin(output)

C1_Witness ==
  /\ pc = "chunk_done" /\ AllWithin(sentences)
  /\ Len(sentences) = 3 /\ Len(output) = 2

\* C6: when every word of the sentence has a token count <= max_tokens,
\* every part returned by split_long_sentence has a token count <= max_tokens.
C6_SplitBudget ==
  AllWithin(Split(sentence)) => AllWithin(parts)

C6_Witness ==
  /\ pc = "split_done" /\ AllWithin(Split(sentence))
  /\ Len(parts) >= 2 /\ tokenize(sentence) > max_tokens

\* C2 (as claimed): every returned chunk has a token count <= max_tokens,
\* except a chunk that is a single word whose own count exceeds max_tokens.
C2_AllChunksBounded ==
  pc = "chunk_done" =>
    \A k \in 1..Len(output) :
      \/ tokenize(output[k]) <= max_tokens
      \/ Len(Split(output[k])) = 1

\* C3 (as claimed): every loop iteration over a sentence whose own token
\* count exceeds max_tokens, whatever its position, appends
\* split_long_sentence's parts of that sentence to the output.
C3_OversizedAlwaysSplit ==
  [][(/\ pc = "chunk_loop" /\ si <= Len(sentences) /\ si' = si + 1
      /\ tokenize(sentences[si]) > max_tokens)
     => LET ps == split_long_sentence(sentences[si], max_tokens)
        IN /\ Len(output') >= Len(output) + Len(ps)
           /\ SubSeq(output', Len(output') - Len(ps) + 1, Len(output')) = ps]_vars

\* C4 (as claimed): for non-empty sentences and max_tokens > 0, no returned
\* chunk is the empty string.
C4_NoEmptyChunk ==
  \A k \in 1..Len(output) : output[k] # <<>>

\* the words of a list of strings, in order
RECURSIVE WordsOf(_)
WordsOf(list) ==
  IF list = <<>> THEN <<>> ELSE Split(Head(list)) \o WordsOf(Tail(list))

\* C5: the words of the returned chunks, read in output order, are the words
\* of the input sentences in input order, except that a sentence handed to
\* the word-level splitter (oversized while the buffer is empty, which is
\* the first sentence) contributes its words twice: as its split parts and
\* again inside the chunk it is flushed in.
C5_Coverage ==
  pc = "chunk_done" =>
    WordsOf(output) =
      (IF sentences # <<>> /\ tokenize(sentences[1]) > max_tokens
       THEN Split(sentences[1]) ELSE <<>>) \o WordsOf(sentences)

C5_Witness ==
  /\ pc = "chunk_done" /\ Len(sentences) = 3
  /\ tokenize(sentences[1]) > max_tokens
  /\ tokenize(sentences[2]) <= max_tokens
  /\ WordsOf(output) = Split(sentences[1]) \o WordsOf(sentences)

\* C10: a loop iteration that finds the buffer non-empty and
\* chunk_len + tokenize(s) > max_tokens flushes the buffer and makes s the
\* first sentence of the next chunk, and the flushed chunk's token count
\* plus tokenize(s) exceeds max_tokens; while s still fits in a non-empty
\* buffer, nothing is flushed and s joins the buffer.
C10_GreedyMaximal ==
  [][(pc = "chunk_loop" /\ si <= Len(sentences) /\ si' = si + 1
      /\ Len(current_chunk) > 0)
     => LET s == sentences[si]
            pending == Join(current_chunk)
        IN /\ (chunk_len + tokenize(s) > max_tokens)
                => /\ output' = Append(output, pending)
                   /\ current_chunk' = <<s>>
                   /\ tokenize(pending) + tokenize(s) > max_tokens
           /\ (tokenize(pending) + tokenize(s) <= max_tokens)
                => /\ output' = output
                   /\ current_chunk' = Append(current_chunk, s)]_vars

C10_Witness ==
  /\ pc = "chunk_loop" /\ si = 4
  /\ AllWithin(sentences)
  /\ Len(output) = 1
  /\ output[1] = Join(SubSeq(sentences, 1, 2))
  /\ current_chunk = <<sentences[3]>>

\* a row succeeds when its text is a str and model.encode raises on none of
\* its chunks
Succeeds(r) ==
  /\ df[r].text # NaN
  /\ encode_raises[r] \notin 1..Len(preprocess(df[r].text, max_tokens))

RECURSIVE SucceededRows(_)
SucceededRows(r) ==
  IF r = 0 THEN <<>>
  ELSE IF Succeeds(r) THEN Append(SucceededRows(r - 1), r) ELSE SucceededRows(r - 1)

\* C7: the accumulated output holds exactly one entry, complete, for each
\* row handled so far whose preprocessing and embedding both succeeded, in
\* input order, and nothing for a row where either raised; the loop goes on
\* to the last row whatever failed, and what is saved is that list.
C7_ErrorIsolation ==
  pc \in {"row", "embed", "done"} =>
    LET ok == SucceededRows(row - 1)
    IN /\ Len(processed_articles) = Len(ok)
       /\ \A k \in 1..Len(ok) :
            /\ processed_articles[k].article_id = ToString(df[ok[k]].article_id)
            /\ processed_articles[k].chunk = preprocess(df[ok[k]].text, max_tokens)
            /\ Len(processed_articles[k].embedding) = Len(processed_articles[k].chunk)
       /\ pc = "done" => /\ row = Len(df) + 1
                         /\ saved_dataset = <<processed_articles>>

C7_Witness ==
  /\ pc = "done" /\ Len(df) = 2
  /\ df[1].text # NaN /\ encode_raises[1] = 2
  /\ Len(preprocess(df[1].text, max_tokens)) >= 2
  /\ Succeeds(2)
  /\ Len(processed_articles) = 1
  /\ processed_articles[1].article_id = "2"

\* C8: every entry of processed_articles has as many embeddings as chunks,
\* and embedding[i] is the vector model.encode returned for chunk[i], with
\* the prefix and a space in front when a prefix is configured.
C8_Aligned ==
  \A k \in 1..Len(processed_articles) :
    LET e == processed_articles[k]
    IN /\ Len(e.embedding) = Len(e.chunk)
       /\ \A i \in 1..Len(e.chunk) :
            e.embedding[i] =
              encode(IF prefix = <<>> THEN e.chunk[i] ELSE prefix \o <<" ">> \o e.chunk[i])

C8_Witness ==
  /\ prefix # <<>>
  /\ Len(processed_articles) >= 1
  /\ Len(processed_articles[1].chunk) >= 2
  /\ processed_articles[1].chunk[1] # processed_articles[1].chunk[2]

\* C9 (as claimed): when the input file is missing, FileNotFoundError is
\* raised before any row is read, chunked or embedded, before any dataset
\* is saved and before anything is created at the output location.
C9_NothingCreated ==
  pc = "FileNotFoundError" =>
    /\ row = 0 /\ df = <<>> /\ chunks = <<>> /\ embeddings = <<>>
    /\ processed_articles = <<>> /\ saved_dataset = <<>>
    /\ ~output_path_exists

\* C9 (amended): when the input file is missing, main never gets past the
\* existence check: FileNotFoundError is raised before any row is read,
\* chunked or embedded and before any dataset is saved; the output
\* directory has been created by then.
C9_RaisesBeforeProcessing ==
  /\ ~input_exists =>
       /\ pc \in {"load_model", "make_output_path", "check_input", "FileNotFoundError"}
       /\ row = 0 /\ df = <<>> /\ chunks = <<>> /\ embeddings = <<>>
       /\ processed_articles = <<>> /\ saved_dataset = <<>>
  /\ pc = "FileNotFoundError" => ~input_exists /\ output_path_exists

C9_Witness ==
  /\ pc = "FileNotFoundError" /\ ~input_exists
  /\ Len(table) > 0 /\ output_path_exists

====
